---- MODULE Spec2Model ----
(***************************************************************************)
(* Smart Horses: the game state (core/game_state.py), the knight move      *)
(* generator (core/move_generator.py) and the callers that drive them.     *)
(*                                                                         *)
(* A GameState object is modelled twice over the same definitions: as a    *)
(* record (so that the operations are operators from state to state, the   *)
(* way the search uses them on copies) and as the variables of the         *)
(* authoritative instance, which the actions update from those operators.  *)
(***************************************************************************)
EXTENDS Integers, Sequences, FiniteSets, TLC

VARIABLES board, white_knight, black_knight, white_score, black_score,
          current_player, difficulty, max_depth, game_over, winner,
          last, probe, steps, search, request, clone, ledger

vars == <<board, white_knight, black_knight, white_score, black_score,
          current_player, difficulty, max_depth, game_over, winner,
          last, probe, steps, search, request, clone, ledger>>

gameVars == <<board, white_knight, black_knight, white_score, black_score,
              current_player, difficulty, max_depth, game_over, winner>>

-----------------------------------------------------------------------------
(* Bounds of the exploration.                                              *)

\* calls of make_move / check_and_penalize_no_moves in one play
MaxSteps == 9
\* destinations of the explored plays lie in rows and columns 0..ArenaSize-1
ArenaSize == 4
\* calls in one run of the unvalidated make_move interface
MaxRawSteps == 3
\* squares a test may destroy by hand before probing the move generator
MaxDestroyed == 3
\* moves made in a game before find_best_move is called on it
MaxSearchPlies == 2
\* the depths find_best_move is called with: 0..MaxSearchDepth
MaxSearchDepth == 2
\* moves made in a game before its state is posted to the routes
MaxServedPlies == 1
\* requests served in one run
MaxRequests == 1
\* turns of a whole game in which the side to move takes any legal move;
\* in the later turns it takes the first one of get_valid_moves
FreeTurns == 3
\* turns of a whole game
MaxTurns == 130
\* calls of make_move / check_and_penalize_no_moves on a fresh game that is
\* not searched
MaxFreshPlies == 2
\* moves made in a game before it is copied
MaxClonePlies == 1
\* calls made on a game and its copy after the copy
MaxCloneCalls == 2
\* a served game: the requests of one game, and the requests up to which
\* the client chooses between two moves
MaxSessionRequests == 16
SessionFreeTurns == 4

-----------------------------------------------------------------------------
(* Cells: Python's None, the string 'destroyed', or an int.                *)

BOARD_SIZE == 8

None == [kind |-> "None", value |-> 0]

destroyed == [kind |-> "destroyed", value |-> 0]

Int_(n) == [kind |-> "int", value |-> n]

\* Python truthiness of a cell value: None and 0 are falsy
Truthy(v) == v.kind = "destroyed" \/ (v.kind = "int" /\ v.value # 0)

Positions == {<<r, c>> : r \in 0..(BOARD_SIZE - 1), c \in 0..(BOARD_SIZE - 1)}

NoPosition == <<-9, -9>>

Other(knight) == IF knight = "white" THEN "black" ELSE "white"

\* dict.get(key, default)
BoardGet(b, key, default) == IF key \in DOMAIN b THEN b[key] ELSE default

\* dict[key] = value (adds the key when missing)
BoardSet(b, key, value) ==
    [p \in (DOMAIN b) \cup {key} |-> IF p = key THEN value ELSE b[p]]

\* the elements of seq that are in keep, in the order of seq
RECURSIVE Filter(_, _)
Filter(seq, keep) ==
    IF seq = <<>> THEN <<>>
    ELSE IF Head(seq) \in keep THEN <<Head(seq)>> \o Filter(Tail(seq), keep)
    ELSE Filter(Tail(seq), keep)

Range(seq) == {seq[i] : i \in 1..Len(seq)}

-----------------------------------------------------------------------------
(* core/move_generator.py                                                  *)

\* a knight that only moves up the board
KNIGHT_MOVES_upward == << <<-2, -1>>, <<-2, 1>>, <<-1, -2>>, <<-1, 2>> >>

KNIGHT_MOVES == << <<-2, -1>>, <<-2, 1>>, <<-1, -2>>, <<-1, 2>>,
                   <<1, -2>>, <<1, 2>>, <<2, -1>>, <<2, 1>> >>

InBounds(p) == 0 <= p[1] /\ p[1] < BOARD_SIZE /\ 0 <= p[2] /\ p[2] < BOARD_SIZE

get_knight_moves(position) ==
    LET cand == [i \in 1..Len(KNIGHT_MOVES) |->
                    <<position[1] + KNIGHT_MOVES[i][1],
                      position[2] + KNIGHT_MOVES[i][2]>>]
    IN  Filter(cand, {p \in Range(cand) : InBounds(p)})

\* get_valid_moves that filters the opponent's square only
get_valid_moves_keep_destroyed(knight_position, b, opponent_position) ==
    LET all_moves == get_knight_moves(knight_position)
    IN  Filter(all_moves, {m \in Range(all_moves) : m # opponent_position})

\* get_valid_moves that filters the destroyed squares only
get_valid_moves_no_block(knight_position, b, opponent_position) ==
    LET all_moves == get_knight_moves(knight_position)
    IN  Filter(all_moves, {m \in Range(all_moves) : BoardGet(b, m, None) # destroyed})

get_valid_moves(knight_position, b, opponent_position) ==
    LET all_moves == get_knight_moves(knight_position)
    IN  Filter(all_moves, {m \in Range(all_moves) :
                              BoardGet(b, m, None) # destroyed /\ m # opponent_position})

-----------------------------------------------------------------------------
(* core/game_state.py                                                      *)

special_values == <<-10, -5, -4, -3, -1, 1, 3, 4, 5, 10>>

\* [(r, c) for r in range(8) for c in range(8)]
all_positions == [i \in 1..(BOARD_SIZE * BOARD_SIZE) |->
                    <<(i - 1) \div BOARD_SIZE, (i - 1) % BOARD_SIZE>>]

\* random.shuffle: some permutation of all_positions.  The explored ones are
\* i -> a*i + b (mod 64) with a odd, which are permutations of the 64 squares.
ShuffleMultipliers == {1, 9}

ShuffleOffsets == {10, 17}

Shuffles == {[i \in 1..Len(all_positions) |->
                all_positions[((a * (i - 1) + b) % Len(all_positions)) + 1]] :
             a \in ShuffleMultipliers, b \in ShuffleOffsets}

Difficulties == {"beginner", "amateur", "expert"}

get_max_depth(d) ==
    CASE d = "beginner" -> 2
      [] d = "amateur" -> 4
      [] d = "expert" -> 6
      [] OTHER -> 2

\* _initialize_board that does not skip the two knight positions
initialize_board_no_skip(shuffled) ==
    [board |-> [p \in Positions |->
                  IF \E i \in 1..Len(special_values) : shuffled[i] = p
                  THEN Int_(special_values[CHOOSE i \in 1..Len(special_values) :
                                              shuffled[i] = p])
                  ELSE None],
     white_knight |-> shuffled[1],
     black_knight |-> shuffled[2]]

initialize_board(shuffled) ==
    [board |-> [p \in Positions |->
                  IF \E i \in 1..Len(special_values) : shuffled[i + 2] = p
                  THEN Int_(special_values[CHOOSE i \in 1..Len(special_values) :
                                              shuffled[i + 2] = p])
                  ELSE None],
     white_knight |-> shuffled[1],
     black_knight |-> shuffled[2]]

\* GameState.__init__
GameState(d, shuffled) ==
    LET init == initialize_board(shuffled)
    IN  [board |-> init.board,
         white_knight |-> init.white_knight,
         black_knight |-> init.black_knight,
         white_score |-> 0,
         black_score |-> 0,
         current_player |-> "white",
         difficulty |-> d,
         max_depth |-> get_max_depth(d),
         game_over |-> FALSE,
         winner |-> "None"]

\* GameState.get_valid_moves
valid_moves_of(s, knight) ==
    LET position == IF knight = "white" THEN s.white_knight ELSE s.black_knight
        opponent_position == IF knight = "white" THEN s.black_knight
                                                 ELSE s.white_knight
    IN  get_valid_moves(position, s.board, opponent_position)

\* _check_game_over that ends the game when either side is stuck
check_game_over_either(s) ==
    IF valid_moves_of(s, "white") = <<>> \/ valid_moves_of(s, "black") = <<>>
    THEN [s EXCEPT !.game_over = TRUE,
                   !.winner = IF s.white_score > s.black_score THEN "white"
                              ELSE IF s.black_score > s.white_score THEN "black"
                              ELSE "tie"]
    ELSE s

\* _check_game_over that never ends the game
check_game_over_never(s) == s

\* _check_game_over that gives the game to the side with the lower score
check_game_over_lower_wins(s) ==
    IF valid_moves_of(s, "white") = <<>> /\ valid_moves_of(s, "black") = <<>>
    THEN [s EXCEPT !.game_over = TRUE,
                   !.winner = IF s.white_score < s.black_score THEN "white"
                              ELSE IF s.black_score < s.white_score THEN "black"
                              ELSE "tie"]
    ELSE s

\* GameState._check_game_over
check_game_over(s) ==
    IF valid_moves_of(s, "white") = <<>> /\ valid_moves_of(s, "black") = <<>>
    THEN [s EXCEPT !.game_over = TRUE,
                   !.winner = IF s.white_score > s.black_score THEN "white"
                              ELSE IF s.black_score > s.white_score THEN "black"
                              ELSE "tie"]
    ELSE s

InvalidResult(knight, new_position) ==
    [op |-> "make_move", knight |-> knight, new_position |-> new_position,
     valid |-> FALSE, points_gained |-> 0, square_destroyed |-> NoPosition,
     penalized |-> FALSE]

MoveResult(knight, new_position, points_gained, old_position) ==
    [op |-> "make_move", knight |-> knight, new_position |-> new_position,
     valid |-> TRUE, points_gained |-> points_gained,
     square_destroyed |-> old_position, penalized |-> FALSE]

\* a make_move that leaves the turn with the mover
Relocated_keep_turn(s, knight, new_position, points_gained, to_destroy) ==
    [s EXCEPT
       !.white_knight = IF knight = "white" THEN new_position ELSE @,
       !.black_knight = IF knight = "white" THEN @ ELSE new_position,
       !.white_score = IF knight = "white" THEN @ + points_gained ELSE @,
       !.black_score = IF knight = "white" THEN @ ELSE @ + points_gained,
       !.board = BoardSet(@, to_destroy, destroyed)]

\* lines 140-159 of make_move: relocate the knight, collect the points,
\* destroy a square, switch player
Relocated(s, knight, new_position, points_gained, to_destroy) ==
    [s EXCEPT
       !.white_knight = IF knight = "white" THEN new_position ELSE @,
       !.black_knight = IF knight = "white" THEN @ ELSE new_position,
       !.white_score = IF knight = "white" THEN @ + points_gained ELSE @,
       !.black_score = IF knight = "white" THEN @ ELSE @ + points_gained,
       !.board = BoardSet(@, to_destroy, destroyed),
       !.current_player = IF knight = "white" THEN "black" ELSE "white"]

\* a make_move that collects the positive values only
PointsOf_positive(square_value) ==
    IF square_value.kind = "int" /\ square_value.value > 0
    THEN square_value.value ELSE 0

\* points_gained: square_value if it is truthy and not "destroyed", else 0
PointsOf(square_value) ==
    IF Truthy(square_value) /\ square_value # destroyed
    THEN square_value.value ELSE 0

\* make_move without the test for a destroyed destination
make_move_unchecked(s, knight, new_position) ==
    LET old_position == IF knight = "white" THEN s.white_knight ELSE s.black_knight
        square_value == BoardGet(s.board, new_position, Int_(0))
        points_gained == PointsOf(square_value)
    IN  [state |-> check_game_over(
                     Relocated(s, knight, new_position, points_gained, old_position)),
         result |-> MoveResult(knight, new_position, points_gained, old_position)]

\* make_move that reports the points but does not add them to the score
make_move_no_score(s, knight, new_position) ==
    LET old_position == IF knight = "white" THEN s.white_knight ELSE s.black_knight
        square_value == BoardGet(s.board, new_position, Int_(0))
        points_gained == PointsOf(square_value)
    IN  IF square_value = destroyed
        THEN [state |-> s, result |-> InvalidResult(knight, new_position)]
        ELSE [state |-> check_game_over(
                          Relocated(s, knight, new_position, 0, old_position)),
              result |-> MoveResult(knight, new_position, points_gained, old_position)]

\* make_move that destroys the square of arrival instead of the vacated one
make_move_destroy_arrival(s, knight, new_position) ==
    LET old_position == IF knight = "white" THEN s.white_knight ELSE s.black_knight
        square_value == BoardGet(s.board, new_position, Int_(0))
        points_gained == PointsOf(square_value)
    IN  IF square_value = destroyed
        THEN [state |-> s, result |-> InvalidResult(knight, new_position)]
        ELSE [state |-> check_game_over(
                          Relocated(s, knight, new_position, points_gained, new_position)),
              result |-> MoveResult(knight, new_position, points_gained, old_position)]

\* GameState.make_move: the state after the call and the returned dict
make_move(s, knight, new_position) ==
    LET old_position == IF knight = "white" THEN s.white_knight ELSE s.black_knight
        square_value == BoardGet(s.board, new_position, Int_(0))
        points_gained == PointsOf(square_value)
    IN  IF square_value = destroyed
        THEN [state |-> s, result |-> InvalidResult(knight, new_position)]
        ELSE [state |-> check_game_over(
                          Relocated(s, knight, new_position, points_gained, old_position)),
              result |-> MoveResult(knight, new_position, points_gained, old_position)]

PenaltyResult(s, applied) ==
    [op |-> "check_and_penalize_no_moves", knight |-> s.current_player,
     new_position |-> NoPosition, valid |-> FALSE, points_gained |-> 0,
     square_destroyed |-> NoPosition, penalized |-> applied]

Penalized(s, amount, next_player) ==
    [s EXCEPT
       !.white_score = IF s.current_player = "white" THEN @ - amount ELSE @,
       !.black_score = IF s.current_player = "white" THEN @ ELSE @ - amount,
       !.current_player = next_player]

\* check_and_penalize_no_moves that keeps the turn with the stuck side
check_and_penalize_no_moves_keep_turn(s) ==
    LET current_moves == valid_moves_of(s, s.current_player)
    IN  IF current_moves = <<>>
        THEN [state |-> check_game_over(Penalized(s, 4, s.current_player)),
              result |-> PenaltyResult(s, TRUE)]
        ELSE [state |-> s, result |-> PenaltyResult(s, FALSE)]

\* GameState.check_and_penalize_no_moves: the state after the call and the
\* returned bool (result.penalized)
check_and_penalize_no_moves(s) ==
    LET current_moves == valid_moves_of(s, s.current_player)
    IN  IF current_moves = <<>>
        THEN [state |-> check_game_over(Penalized(s, 4, Other(s.current_player))),
              result |-> PenaltyResult(s, TRUE)]
        ELSE [state |-> s, result |-> PenaltyResult(s, FALSE)]

-----------------------------------------------------------------------------
(* GameState.to_dict / from_dict / copy.  A board key f"{row},{col}" is the *)
(* decimal numeral of the row, a comma and the decimal numeral of the       *)
(* column; from_dict splits it at the comma and converts each part back     *)
(* with int().                                                              *)

\* a local variable: value is computed once, and Rest is the code from there
\* on
Local(value, Rest(_)) == CHOOSE r \in {Rest(x) : x \in {value}} : TRUE

\* the ints whose numerals occur as coordinates
Coordinates == -9..17

\* int(part) for the numeral of a coordinate
NumeralValue == [str \in {ToString(n) : n \in Coordinates} |->
                    CHOOSE n \in Coordinates : ToString(n) = str]

\* a key that puts the column first
BoardKey_col_row(pos) == <<ToString(pos[2]), ",", ToString(pos[1])>>

\* f"{pos[0]},{pos[1]}"
BoardKey(pos) == <<ToString(pos[1]), ",", ToString(pos[2])>>

\* key.split(",")
SplitComma(key) == LET Part(x) == x # "," IN SelectSeq(key, Part)

\* row, col = map(int, key.split(","))
ParseKey(key) ==
    LET parts == SplitComma(key)
    IN  <<NumeralValue[parts[1]], NumeralValue[parts[2]]>>

\* board_dict: for pos, value in self.board.items(): board_dict[key] = value
BoardDict(b) ==
    Local({<<BoardKey(pos), b[pos]>> : pos \in DOMAIN b}, LAMBDA items :
          [key \in {item[1] : item \in items} |->
              (CHOOSE item \in items : item[1] = key)[2]])

to_dict(s) ==
    [board |-> BoardDict(s.board),
     white_knight |-> s.white_knight,
     black_knight |-> s.black_knight,
     white_score |-> s.white_score,
     black_score |-> s.black_score,
     current_player |-> s.current_player,
     difficulty |-> s.difficulty,
     max_depth |-> s.max_depth,
     game_over |-> s.game_over,
     winner |-> s.winner]

\* game.board: for key, value in data["board"].items():
\* game.board[(row, col)] = value
BoardOf(board_dict) ==
    Local({<<ParseKey(key), board_dict[key]>> : key \in DOMAIN board_dict},
          LAMBDA items :
          [pos \in {item[1] : item \in items} |->
              (CHOOSE item \in items : item[1] = pos)[2]])

from_dict(data) ==
    [board |-> BoardOf(data.board),
     white_knight |-> data.white_knight,
     black_knight |-> data.black_knight,
     white_score |-> data.white_score,
     black_score |-> data.black_score,
     current_player |-> data.current_player,
     difficulty |-> data.difficulty,
     max_depth |-> data.max_depth,
     game_over |-> data.game_over,
     winner |-> data.winner]

\* GameState.copy
copy(s) == from_dict(to_dict(s))

\* The mutable objects of a GameState are the instance and its board dict
\* (the knights are tuples, the other attributes ints, strs and bools).

\* a copy that takes over the board dict of its source
CopyShares_board == {"board"}

\* the mutable objects a copy has in common with its source: from_dict makes
\* a new instance (cls.__new__(cls)) and a new dict (game.board = {})
CopyShares == {}

\* the state of an object after a call on another object that left that one
\* in state after, when the two have the objects of shares in common
SeenThrough(other, after, shares) ==
    IF "board" \in shares THEN [other EXCEPT !.board = after.board] ELSE other

-----------------------------------------------------------------------------
(* core/board_manager.py and algorithms/heuristic.py                        *)

Abs(n) == IF n < 0 THEN -n ELSE n

manhattan_distance(pos1, pos2) == Abs(pos1[1] - pos2[1]) + Abs(pos1[2] - pos2[2])

is_center_position(position) ==
    position \in {<<3, 3>>, <<3, 4>>, <<4, 3>>, <<4, 4>>}

\* the squares that carry a positive int
get_valuable_squares(b) ==
    {p \in DOMAIN b : Truthy(b[p]) /\ b[p] # destroyed /\ b[p].kind = "int"
                      /\ b[p].value > 0}

count_valid_moves(knight_position, b, opponent_position) ==
    Len(get_valid_moves(knight_position, b, opponent_position))

\* Evaluations are Python numbers with value / distance terms.  They are kept
\* exactly, as integer multiples of 1/EvalUnit: the distances on the board are
\* 1..14 and proximity_weight * EvalUnit = 360360 is a multiple of each.
EvalUnit == 72072

\* proximity_weight * (value / dist), or proximity_weight * value * 2 on the
\* square, in units of 1/EvalUnit
ProximityTerm(knight_position, b, position) ==
    LET dist == manhattan_distance(knight_position, position)
        value == b[position].value
    IN  IF dist > 0 THEN (value * 5 * EvalUnit) \div dist
        ELSE value * 2 * 5 * EvalUnit

\* the for loop over valuable_squares: one knight's proximity times
\* proximity_weight
RECURSIVE Proximity(_, _, _)
Proximity(knight_position, b, squares) ==
    IF squares = {} THEN 0
    ELSE LET position == CHOOSE p \in squares : TRUE
         IN  ProximityTerm(knight_position, b, position)
             + Proximity(knight_position, b, squares \ {position})

\* an evaluator without the terminal shortcut: a finished game is scored by
\* the factors like any other state
evaluate_game_state_no_shortcut(s) ==
    LET white_moves == count_valid_moves(s.white_knight, s.board, NoPosition)
        black_moves == count_valid_moves(s.black_knight, s.board, NoPosition)
        valuable_squares == get_valuable_squares(s.board)
    IN  ((s.white_score - s.black_score) * 100 + (white_moves - black_moves) * 10
         + (IF is_center_position(s.white_knight) THEN 3 ELSE 0)
         - (IF is_center_position(s.black_knight) THEN 3 ELSE 0)
         + (IF white_moves = 0 THEN -400 ELSE 0)
         + (IF black_moves = 0 THEN 400 ELSE 0)) * EvalUnit
        + Proximity(s.white_knight, s.board, valuable_squares)
        - Proximity(s.black_knight, s.board, valuable_squares)

\* evaluate_game_state, in units of 1/EvalUnit
evaluate_game_state(s) ==
    IF s.game_over
    THEN (IF s.winner = "white" THEN 10000 * EvalUnit
          ELSE IF s.winner = "black" THEN -10000 * EvalUnit
          ELSE 0)
    ELSE LET score_diff == s.white_score - s.black_score
             white_moves == count_valid_moves(s.white_knight, s.board, NoPosition)
             black_moves == count_valid_moves(s.black_knight, s.board, NoPosition)
             mobility_diff == white_moves - black_moves
             valuable_squares == get_valuable_squares(s.board)
             proximity == Proximity(s.white_knight, s.board, valuable_squares)
                          - Proximity(s.black_knight, s.board, valuable_squares)
             center == (IF is_center_position(s.white_knight) THEN 3 ELSE 0)
                       - (IF is_center_position(s.black_knight) THEN 3 ELSE 0)
             no_moves == (IF white_moves = 0 THEN -400 ELSE 0)
                         + (IF black_moves = 0 THEN 400 ELSE 0)
         IN  (score_diff * 100 + mobility_diff * 10 + center + no_moves) * EvalUnit
             + proximity

-----------------------------------------------------------------------------
(* algorithms/minimax.py                                                    *)

\* float("inf"), in units of 1/EvalUnit: above every evaluation
Infinity == 2000000000

Max(a, b) == IF a > b THEN a ELSE b

Min(a, b) == IF a < b THEN a ELSE b

\* a cutoff that comes too early: it also prunes subtrees that can still
\* hold a better value
Cutoff_early(alpha, beta) == beta <= alpha + 50 * EvalUnit

\* if beta <= alpha: break
Cutoff(alpha, beta) == beta <= alpha

\* a maximizing node that also takes a later move of equal value
ImprovesMax_or_equal(eval_score, max_eval) == eval_score >= max_eval

\* if eval_score > max_eval: the move replaces the best one so far
ImprovesMax(eval_score, max_eval) == eval_score > max_eval

\* a minimizing node that never records a move
ImprovesMin_never(eval_score, min_eval) == FALSE

\* if eval_score < min_eval: the move replaces the best one so far
ImprovesMin(eval_score, min_eval) == eval_score < min_eval

\* what a call returns (evaluation, best move, nodes_evaluated), the value
\* its game_state argument has when it returns, and the calls of
\* minimax_alpha_beta entered so far (see Visit)
SearchReturn(evaluation, move, nodes_evaluated, game_state, visited) ==
    [evaluation |-> evaluation, move |-> move,
     nodes_evaluated |-> nodes_evaluated, game_state |-> game_state,
     visited |-> visited]

\* the frame a root call is made from: it is no call of minimax_alpha_beta
NoCaller == [level |-> -1, leaf |-> FALSE]

\* the frame of a call of minimax_alpha_beta: how many calls are on the
\* stack below it, and whether it has depth 0, a game that is over or a side
\* (the one is_maximizing names) without a valid move
Frame(caller, game_state, depth, is_maximizing) ==
    [level |-> caller.level + 1,
     leaf |-> \/ depth = 0
              \/ game_state.game_over
              \/ valid_moves_of(game_state,
                                IF is_maximizing THEN "white" ELSE "black") = <<>>]

\* one call of minimax_alpha_beta as it is entered: its frame, its depth and
\* is_maximizing arguments, the side to move in its game_state, and whether
\* the call it was made from was such a leaf
Visit(caller, game_state, depth, is_maximizing) ==
    [level |-> caller.level + 1, depth |-> depth, is_maximizing |-> is_maximizing,
     current_player |-> game_state.current_player,
     leaf |-> Frame(caller, game_state, depth, is_maximizing).leaf,
     under_leaf |-> caller.leaf]

\* a search that scores a side without moves by the state after its penalty
NoMoveLeaf_penalized(game_state, nodes_evaluated, visited) ==
    SearchReturn(evaluate_game_state(check_and_penalize_no_moves(game_state).state),
                 NoPosition, nodes_evaluated, game_state, visited)

\* if not valid_moves: return evaluate_game_state(game_state), None,
\* nodes_evaluated
NoMoveLeaf(game_state, nodes_evaluated, visited) ==
    SearchReturn(evaluate_game_state(game_state), NoPosition, nodes_evaluated,
                 game_state, visited)

\* a simulation without the copy: the move is made on game_state itself
Simulate_in_place(game_state, player, move) ==
    LET moved == make_move(game_state, player, move).state
    IN  [new_state |-> moved, game_state |-> moved]

\* new_state = game_state.copy(); new_state.make_move(player, move): the
\* values of the two objects afterwards
Simulate(game_state, player, move) ==
    Local(make_move(copy(game_state), player, move).state, LAMBDA new_state :
          [new_state |-> new_state,
           game_state |-> SeenThrough(game_state, new_state, CopyShares)])

\* a search that stops one ply below the depth it is given
Horizon_below(depth) == depth = -1

\* if depth == 0
Horizon(depth) == depth = 0

RECURSIVE minimax_alpha_beta(_, _, _, _, _, _, _, _)
RECURSIVE max_loop(_, _, _, _, _, _, _, _, _, _, _)
RECURSIVE min_loop(_, _, _, _, _, _, _, _, _, _, _)

\* the for loop of the maximizing branch, from the i-th move on
max_loop(game_state, valid_moves, i, depth, alpha, beta, max_eval, best_move, nodes_evaluated, visited, self) ==
    IF i > Len(valid_moves)
    THEN SearchReturn(max_eval, best_move, nodes_evaluated, game_state, visited)
    ELSE LET move == valid_moves[i]
             sim == Simulate(game_state, "white", move)
             child == minimax_alpha_beta(sim.new_state, depth - 1, alpha, beta, FALSE,
                                         nodes_evaluated, visited, self)
             eval_score == child.evaluation
             better == ImprovesMax(eval_score, max_eval)
             new_max == IF better THEN eval_score ELSE max_eval
             new_best == IF better THEN move ELSE best_move
             new_alpha == Max(alpha, eval_score)
         IN  IF Cutoff(new_alpha, beta)
             THEN SearchReturn(new_max, new_best, child.nodes_evaluated,
                               sim.game_state, child.visited)
             ELSE max_loop(sim.game_state, valid_moves, i + 1, depth, new_alpha, beta,
                           new_max, new_best, child.nodes_evaluated,
                           child.visited, self)

\* the for loop of the minimizing branch, from the i-th move on
min_loop(game_state, valid_moves, i, depth, alpha, beta, min_eval, best_move, nodes_evaluated, visited, self) ==
    IF i > Len(valid_moves)
    THEN SearchReturn(min_eval, best_move, nodes_evaluated, game_state, visited)
    ELSE LET move == valid_moves[i]
             sim == Simulate(game_state, "black", move)
             child == minimax_alpha_beta(sim.new_state, depth - 1, alpha, beta, TRUE,
                                         nodes_evaluated, visited, self)
             eval_score == child.evaluation
             better == ImprovesMin(eval_score, min_eval)
             new_min == IF better THEN eval_score ELSE min_eval
             new_best == IF better THEN move ELSE best_move
             new_beta == Min(beta, eval_score)
         IN  IF Cutoff(alpha, new_beta)
             THEN SearchReturn(new_min, new_best, child.nodes_evaluated,
                               sim.game_state, child.visited)
             ELSE min_loop(sim.game_state, valid_moves, i + 1, depth, alpha, new_beta,
                           new_min, new_best, child.nodes_evaluated,
                           child.visited, self)

\* visited and caller are not arguments of the code: they record the calls
\* entered so far and the call this one is made from
minimax_alpha_beta(game_state, depth, alpha, beta, is_maximizing, nodes_evaluated, visited, caller) ==
    LET nodes == nodes_evaluated + 1
        player == IF is_maximizing THEN "white" ELSE "black"
        valid_moves == valid_moves_of(game_state, player)
        seen == visited \cup {Visit(caller, game_state, depth, is_maximizing)}
        self == Frame(caller, game_state, depth, is_maximizing)
    IN  IF Horizon(depth) \/ game_state.game_over
        THEN SearchReturn(evaluate_game_state(game_state), NoPosition, nodes,
                          game_state, seen)
        ELSE IF valid_moves = <<>>
        THEN NoMoveLeaf(game_state, nodes, seen)
        ELSE IF is_maximizing
        THEN max_loop(game_state, valid_moves, 1, depth, alpha, beta, -Infinity,
                      NoPosition, nodes, seen, self)
        ELSE min_loop(game_state, valid_moves, 1, depth, alpha, beta, Infinity,
                      NoPosition, nodes, seen, self)

\* max_depth = None: the call gives no depth
NoDepth == -1

\* a search that takes the beginner's depth whenever no depth is given
SearchDepth_beginner(game_state, depth) ==
    IF depth = NoDepth THEN 2 ELSE depth

\* if max_depth is None: max_depth = game_state.max_depth
SearchDepth(game_state, depth) ==
    IF depth = NoDepth THEN game_state.max_depth ELSE depth

\* a search that takes every root for a maximizing node
RootMaximizing_always(game_state) == TRUE

\* is_maximizing = game_state.current_player == "white"
RootMaximizing(game_state) == game_state.current_player = "white"

\* find_best_move(game_state, max_depth): the MinimaxResult, and the value of
\* game_state when it returns; depth is the max_depth argument (NoDepth when
\* the call gives none)
find_best_move(game_state, depth) ==
    Local(SearchDepth(game_state, depth), LAMBDA searched_depth :
    Local(minimax_alpha_beta(game_state, searched_depth, -Infinity, Infinity,
                             RootMaximizing(game_state), 0, {}, NoCaller),
          LAMBDA r :
          [evaluation |-> r.evaluation, move |-> r.move,
           nodes_evaluated |-> r.nodes_evaluated,
           depth_reached |-> searched_depth, game_state |-> r.game_state,
           visited |-> r.visited]))

-----------------------------------------------------------------------------
(* routes/game_routes.py: each handler is a function from the request body  *)
(* to the response.  A body is a record of the fields that were posted; a   *)
(* response carries its HTTP status, the fields of its JSON and, as         *)
(* 'searched', the states find_best_move was called on while serving it.    *)

ErrorResponse(status, error, message) ==
    [status |-> status, error |-> error, message |-> message, searched |-> <<>>]

\* response = game_state.to_dict() with the handler's extra fields
StateResponse(game_state, machine_move, penalty_applied, searched) ==
    [status |-> 200, game_state |-> to_dict(game_state),
     machine_move |-> machine_move, penalty_applied |-> penalty_applied,
     searched |-> searched]

\* a handler that takes any difficulty
RecognizedTier_any(d) == TRUE

\* the difficulty validation of /new
RecognizedTier(d) == d \in {"beginner", "amateur", "expert"}

\* POST /new; shuffled is the outcome of random.shuffle in the
\* GameState(difficulty=difficulty) it constructs
new_game(data, shuffled) ==
    LET d == IF "difficulty" \in DOMAIN data THEN data.difficulty ELSE "beginner"
    IN  IF ~RecognizedTier(d)
        THEN ErrorResponse(400, "Invalid difficulty",
                           "Difficulty must be beginner, amateur, or expert")
        ELSE Local(check_and_penalize_no_moves(GameState(d, shuffled)),
                   LAMBDA first :
             IF first.result.penalized
             THEN StateResponse(first.state, NoPosition, TRUE, <<>>)
             ELSE Local(find_best_move(first.state, NoDepth),
                        LAMBDA result :
                  IF result.move # NoPosition
                  THEN Local(make_move(result.game_state, "white", result.move).state,
                             LAMBDA moved :
                       Local(check_and_penalize_no_moves(moved), LAMBDA second :
                       StateResponse(second.state, result.move,
                                     second.result.penalized, <<first.state>>)))
                  ELSE StateResponse(result.game_state, NoPosition, FALSE,
                                     <<first.state>>)))

\* a handler that takes black's move on either side's turn
PlayersTurn_always(game_state) == TRUE

\* the turn validation of /move
PlayersTurn(game_state) == game_state.current_player = "black"

\* a handler that lets the machine answer a move that ended the game
EndedByPlayer_never(game_state) == FALSE

\* if game_state.game_over, after the player's move
EndedByPlayer(game_state) == game_state.game_over

\* POST /move
player_move(data) ==
    IF DOMAIN data = {}
    THEN ErrorResponse(400, "Bad Request", "No JSON data provided")
    ELSE IF "game_state" \notin DOMAIN data \/ "move" \notin DOMAIN data
    THEN ErrorResponse(400, "Bad Request", "Missing required fields: game_state, move")
    ELSE Local(from_dict(data.game_state), LAMBDA game_state :
         LET player_move_pos == data.move
             valid_moves == valid_moves_of(game_state, "black")
         IN  IF ~PlayersTurn(game_state)
             THEN ErrorResponse(400, "Invalid Move", "Not player's turn")
             ELSE IF player_move_pos \notin Range(valid_moves)
             THEN ErrorResponse(400, "Invalid Move", "This is not a valid move")
             ELSE Local(make_move(game_state, "black", player_move_pos).state,
                        LAMBDA moved :
                  IF EndedByPlayer(moved)
                  THEN StateResponse(moved, NoPosition, FALSE, <<>>)
                  ELSE Local(find_best_move(moved, NoDepth),
                             LAMBDA machine_result :
                       IF machine_result.move # NoPosition
                       THEN Local(make_move(machine_result.game_state, "white",
                                            machine_result.move).state,
                                  LAMBDA replied :
                            StateResponse(replied, machine_result.move, FALSE,
                                          <<moved>>))
                       ELSE Local(check_and_penalize_no_moves(
                                     machine_result.game_state),
                                  LAMBDA penalty :
                            StateResponse(penalty.state, NoPosition,
                                          penalty.result.penalized, <<moved>>)))))

\* a handler that penalizes in a finished game too
InPlay_always(game_state) == TRUE

\* and not game_state.game_over, of the penalty condition of /valid-moves
InPlay(game_state) == ~game_state.game_over

\* a handler that never lets the machine move after the player's penalty
MachinesTurn_never(game_state) == FALSE

\* if game_state.current_player == "white", after the penalty
MachinesTurn(game_state) == game_state.current_player = "white"

\* POST /valid-moves
valid_moves_request(data) ==
    IF DOMAIN data = {} \/ "game_state" \notin DOMAIN data
    THEN ErrorResponse(400, "Bad Request", "Missing required field: game_state")
    ELSE Local(from_dict(data.game_state), LAMBDA game_state :
         LET knight == IF "knight" \in DOMAIN data THEN data.knight ELSE "black"
         IN  IF knight \notin {"white", "black"}
             THEN ErrorResponse(400, "Bad Request",
                                "Knight must be \"white\" or \"black\"")
             ELSE Local(valid_moves_of(game_state, knight), LAMBDA valid_moves :
                  IF /\ valid_moves = <<>>
                     /\ game_state.current_player = knight
                     /\ InPlay(game_state)
                  THEN Local(check_and_penalize_no_moves(game_state),
                             LAMBDA penalty :
                       IF /\ penalty.result.penalized
                          /\ ~penalty.state.game_over
                          /\ MachinesTurn(penalty.state)
                       THEN Local(find_best_move(penalty.state, NoDepth),
                                  LAMBDA machine_result :
                            IF machine_result.move # NoPosition
                            THEN Local(make_move(machine_result.game_state, "white",
                                                 machine_result.move).state,
                                       LAMBDA replied :
                                 StateResponse(replied, machine_result.move, TRUE,
                                               <<penalty.state>>))
                            ELSE StateResponse(machine_result.game_state, NoPosition,
                                               TRUE, <<penalty.state>>))
                       ELSE StateResponse(penalty.state, NoPosition,
                                          penalty.result.penalized, <<>>))
                  ELSE [status |-> 200, knight |-> knight,
                        valid_moves |-> valid_moves,
                        count |-> Len(valid_moves), searched |-> <<>>]))

\* POST /machine-move
get_machine_move(data) ==
    IF DOMAIN data = {} \/ "game_state" \notin DOMAIN data
    THEN ErrorResponse(400, "Bad Request", "Missing required field: game_state")
    ELSE Local(from_dict(data.game_state), LAMBDA game_state :
         Local(find_best_move(game_state, NoDepth), LAMBDA result :
         [status |-> 200, move |-> result.move,
          evaluation |-> result.evaluation,
          nodes_evaluated |-> result.nodes_evaluated,
          depth_reached |-> result.depth_reached,
          searched |-> <<game_state>>]))

-----------------------------------------------------------------------------
(* The authoritative instance.                                             *)

\* the instance as a record
Game == [board |-> board, white_knight |-> white_knight,
         black_knight |-> black_knight, white_score |-> white_score,
         black_score |-> black_score, current_player |-> current_player,
         difficulty |-> difficulty, max_depth |-> max_depth,
         game_over |-> game_over, winner |-> winner]

Assign(s) ==
    /\ board' = s.board
    /\ white_knight' = s.white_knight
    /\ black_knight' = s.black_knight
    /\ white_score' = s.white_score
    /\ black_score' = s.black_score
    /\ current_player' = s.current_player
    /\ difficulty' = s.difficulty
    /\ max_depth' = s.max_depth
    /\ game_over' = s.game_over
    /\ winner' = s.winner

NoCall == [op |-> "init", knight |-> "None", new_position |-> NoPosition,
           valid |-> FALSE, points_gained |-> 0,
           square_destroyed |-> NoPosition, penalized |-> FALSE]

NoProbe == [position |-> NoPosition, opponent_position |-> NoPosition,
            candidates |-> <<>>, moves |-> <<>>]

\* no find_best_move call yet
NoSearch == [called |-> FALSE]

\* no request served yet
NoRequest == [endpoint |-> "None"]

\* no copy of the game made yet
NoClone == [made |-> FALSE]

\* the account of a game that has just been constructed: no square arrived
\* on (at all, with a value on it, or for a second time), no points found
\* on arrival, no penalty applied
NoLedger ==
    [arrived |-> {}, valued |-> {}, again |-> {}, points |-> 0, penalties |-> 0]

\* game = GameState(difficulty)
Init ==
    /\ \E d \in Difficulties, shuffled \in Shuffles :
          LET s == GameState(d, shuffled)
          IN  /\ board = s.board
              /\ white_knight = s.white_knight
              /\ black_knight = s.black_knight
              /\ white_score = s.white_score
              /\ black_score = s.black_score
              /\ current_player = s.current_player
              /\ difficulty = s.difficulty
              /\ max_depth = s.max_depth
              /\ game_over = s.game_over
              /\ winner = s.winner
    /\ last = NoCall
    /\ probe = NoProbe
    /\ steps = 0
    /\ search = NoSearch
    /\ request = NoRequest
    /\ clone = NoClone
    /\ ledger = NoLedger

InArena(p) == p[1] < ArenaSize /\ p[2] < ArenaSize

\* game.make_move(current_player, dest) with dest taken from
\* game.get_valid_moves(current_player), as the routes, the search and
\* quick_test.py call it
Move(dest) ==
    /\ steps < MaxSteps
    /\ dest \in Range(valid_moves_of(Game, current_player))
    /\ InArena(dest)
    /\ LET r == make_move(Game, current_player, dest)
       IN  Assign(r.state) /\ last' = r.result
    /\ steps' = steps + 1
    /\ UNCHANGED <<probe, search, request, clone, ledger>>

\* game.check_and_penalize_no_moves()
Penalize ==
    /\ steps < MaxSteps
    /\ LET r == check_and_penalize_no_moves(Game)
       IN  Assign(r.state) /\ last' = r.result
    /\ steps' = steps + 1
    /\ UNCHANGED <<probe, search, request, clone, ledger>>

Next ==
    \/ \E dest \in Range(valid_moves_of(Game, current_player)) : Move(dest)
    \/ Penalize

Spec == Init /\ [][Next]_vars

-----------------------------------------------------------------------------
(* make_move as a bare method: it takes any side and any tuple, and checks   *)
(* neither the turn nor the knight geometry (tests/test_game_validations.py  *)
(* calls it with the mover's own square).                                    *)

RawPositions == {<<0, 0>>, <<1, 2>>, <<2, 1>>, <<2, 2>>, <<8, 8>>}

RawMove(knight, new_position) ==
    /\ steps < MaxRawSteps
    /\ LET r == make_move(Game, knight, new_position)
       IN  Assign(r.state) /\ last' = r.result
    /\ steps' = steps + 1
    /\ UNCHANGED <<probe, search, request, clone, ledger>>

RawPenalize ==
    /\ steps < MaxRawSteps
    /\ LET r == check_and_penalize_no_moves(Game)
       IN  Assign(r.state) /\ last' = r.result
    /\ steps' = steps + 1
    /\ UNCHANGED <<probe, search, request, clone, ledger>>

NextRaw ==
    \/ \E knight \in {"white", "black"}, new_position \in RawPositions :
          RawMove(knight, new_position)
    \/ RawPenalize

SpecRaw == Init /\ [][NextRaw]_vars

-----------------------------------------------------------------------------
(* The move generator as a pure function: a test destroys squares by hand    *)
(* (game.board[pos] = "destroyed") and calls get_knight_moves and            *)
(* get_valid_moves with a position and an optional opponent position.        *)

DestroyCandidates == {<<1, 2>>, <<2, 1>>, <<2, 3>>, <<3, 2>>, <<5, 6>>, <<6, 5>>}

ProbeOpponents == {NoPosition, <<2, 1>>, <<2, 3>>, <<6, 5>>}

DestroyedSquares == {p \in DOMAIN board : board[p] = destroyed}

Destroy(p) ==
    /\ probe = NoProbe
    /\ Cardinality(DestroyedSquares) < MaxDestroyed
    /\ board[p] # destroyed
    /\ board' = BoardSet(board, p, destroyed)
    /\ UNCHANGED <<white_knight, black_knight, white_score, black_score,
                   current_player, difficulty, max_depth, game_over, winner,
                   last, probe, steps, search, request, clone, ledger>>

Probe(position, opponent_position) ==
    /\ probe = NoProbe
    /\ probe' = [position |-> position,
                 opponent_position |-> opponent_position,
                 candidates |-> get_knight_moves(position),
                 moves |-> get_valid_moves(position, board, opponent_position)]
    /\ UNCHANGED <<gameVars, last, steps, search, request, clone, ledger>>

NextProbe ==
    \/ \E p \in DestroyCandidates : Destroy(p)
    \/ \E position \in Positions, opponent_position \in ProbeOpponents :
          Probe(position, opponent_position)

SpecProbe == Init /\ [][NextProbe]_vars

-----------------------------------------------------------------------------
(* find_best_move called on a beginner game after a few turns (the side to  *)
(* move makes a legal move, or takes the penalty call when it has none),    *)
(* with a given max_depth (beginner's own max_depth is 2).                  *)

\* the fresh beginner games whose knights start side by side
InitSearch ==
    /\ Init
    /\ difficulty = "beginner"
    /\ black_knight = <<white_knight[1], white_knight[2] + 1>>

\* result = find_best_move(game, depth)
Search(depth) ==
    /\ ~search.called
    /\ \E r \in {find_best_move(Game, depth)} :
          /\ Assign(r.game_state)
          /\ search' = [called |-> TRUE, depth |-> depth, game_state |-> Game,
                        evaluation |-> r.evaluation, move |-> r.move,
                        nodes_evaluated |-> r.nodes_evaluated,
                        depth_reached |-> r.depth_reached,
                        visited |-> r.visited]
    /\ UNCHANGED <<last, probe, steps, request, clone, ledger>>

NextSearch ==
    \/ /\ ~search.called
       /\ steps < MaxSearchPlies
       /\ \E dest \in Range(valid_moves_of(Game, current_player)) : Move(dest)
    \/ /\ ~search.called
       /\ valid_moves_of(Game, current_player) = <<>>
       /\ Penalize
    \/ \E depth \in 0..MaxSearchDepth : Search(depth)

SpecSearch == InitSearch /\ [][NextSearch]_vars

-----------------------------------------------------------------------------
(* find_best_move called at any point of a game played inside the arena:    *)
(* in its first turns, and from the moment a side has no valid move left    *)
(* (where the routes call it after a penalty) up to the end of the game.    *)

\* a side has no valid move, or the game is over
Endgame ==
    \/ game_over
    \/ valid_moves_of(Game, "white") = <<>>
    \/ valid_moves_of(Game, "black") = <<>>

\* result = find_best_move(game, depth), early in the game or in its endgame
EndgameSearch(depth) ==
    /\ steps <= MaxSearchPlies \/ Endgame
    /\ Search(depth)

NextEndgame ==
    \/ /\ ~search.called
       /\ \E dest \in Range(valid_moves_of(Game, current_player)) : Move(dest)
    \/ /\ ~search.called
       /\ Penalize
    \/ \E depth \in 0..MaxSearchDepth : EndgameSearch(depth)

SpecEndgame == InitSearch /\ [][NextEndgame]_vars

-----------------------------------------------------------------------------
(* A fresh game of any difficulty: it is searched as it stands, with the    *)
(* depth of its difficulty or a given one (TestMinimaxPerformance,          *)
(* TestDepthConfiguration), or it is played for a few turns and passed      *)
(* through to_dict / from_dict on the way.                                  *)

\* the shuffles of the fresh games: knights in opposite corners, next to each
\* other in a corner or in the centre, a knight's move apart
FreshMultipliers == {1, 9, 55, 63}

FreshOffsets == {0, 27, 63}

FreshShuffles == {[i \in 1..Len(all_positions) |->
                     all_positions[((a * (i - 1) + b) % Len(all_positions)) + 1]] :
                  a \in FreshMultipliers, b \in FreshOffsets}

\* the max_depth arguments of the calls: none, 2 and 4
FreshDepths == {NoDepth, 2, 4}

\* game = GameState(difficulty); the expert games are those that start with
\* white in a corner (from the centre a search of depth 6 visits some 10^4
\* nodes)
InitFresh ==
    /\ \E d \in Difficulties, shuffled \in FreshShuffles :
          LET s == GameState(d, shuffled)
          IN  /\ d = "expert" =>
                    s.white_knight \in {<<0, 0>>, <<BOARD_SIZE - 1, BOARD_SIZE - 1>>}
              /\ board = s.board
              /\ white_knight = s.white_knight
              /\ black_knight = s.black_knight
              /\ white_score = s.white_score
              /\ black_score = s.black_score
              /\ current_player = s.current_player
              /\ difficulty = s.difficulty
              /\ max_depth = s.max_depth
              /\ game_over = s.game_over
              /\ winner = s.winner
    /\ last = NoCall
    /\ probe = NoProbe
    /\ steps = 0
    /\ search = NoSearch
    /\ request = NoRequest
    /\ clone = NoClone
    /\ ledger = NoLedger

\* result = find_best_move(game) or find_best_move(game, max_depth=depth) on
\* the game as constructed
FreshSearch(depth) ==
    /\ last.op = "init"
    /\ Search(depth)

\* game.make_move(current_player, dest), anywhere on the board
FreshMove(dest) ==
    /\ ~search.called
    /\ steps < MaxFreshPlies
    /\ dest \in Range(valid_moves_of(Game, current_player))
    /\ \E r \in {make_move(Game, current_player, dest)} :
          Assign(r.state) /\ last' = r.result
    /\ steps' = steps + 1
    /\ UNCHANGED <<probe, search, request, clone, ledger>>

\* game.check_and_penalize_no_moves()
FreshPenalize ==
    /\ ~search.called
    /\ steps < MaxFreshPlies
    /\ \E r \in {check_and_penalize_no_moves(Game)} :
          Assign(r.state) /\ last' = r.result
    /\ steps' = steps + 1
    /\ UNCHANGED <<probe, search, request, clone, ledger>>

\* game = GameState.from_dict(game.to_dict())
Reload ==
    /\ ~search.called
    /\ last.op # "from_dict"
    /\ Assign(from_dict(to_dict(Game)))
    /\ last' = [NoCall EXCEPT !.op = "from_dict"]
    /\ UNCHANGED <<probe, steps, search, request, clone, ledger>>

NextFresh ==
    \/ \E depth \in FreshDepths : FreshSearch(depth)
    \/ \E dest \in Range(valid_moves_of(Game, current_player)) : FreshMove(dest)
    \/ FreshPenalize
    \/ Reload

SpecFresh == InitFresh /\ [][NextFresh]_vars

-----------------------------------------------------------------------------
(* A game and a copy of it, c = game.copy(), each then used on its own:     *)
(* make_move and check_and_penalize_no_moves are called on either, and the  *)
(* copy is searched.                                                        *)

\* c = game.copy()
MakeClone ==
    /\ ~clone.made
    /\ clone' = [made |-> TRUE, state |-> copy(Game), shares |-> CopyShares,
                 calls |-> 0, on |-> "None"]
    /\ last' = [NoCall EXCEPT !.op = "copy"]
    /\ UNCHANGED <<gameVars, probe, steps, search, request, ledger>>

\* game.make_move(...) or game.check_and_penalize_no_moves() with outcome r
OnOriginal(r) ==
    /\ Assign(r.state)
    /\ last' = r.result
    /\ clone' = [clone EXCEPT !.state = SeenThrough(@, r.state, clone.shares),
                              !.calls = @ + 1, !.on = "original"]
    /\ UNCHANGED <<probe, steps, search, request, ledger>>

\* c.make_move(...) or c.check_and_penalize_no_moves() with outcome r
OnClone(r) ==
    /\ Assign(SeenThrough(Game, r.state, clone.shares))
    /\ last' = r.result
    /\ clone' = [clone EXCEPT !.state = r.state, !.calls = @ + 1, !.on = "clone"]
    /\ UNCHANGED <<probe, steps, search, request, ledger>>

CloneCallable == clone.made /\ ~search.called /\ clone.calls < MaxCloneCalls

OriginalMove(dest) ==
    /\ CloneCallable
    /\ dest \in Range(valid_moves_of(Game, current_player))
    /\ \E r \in {make_move(Game, current_player, dest)} : OnOriginal(r)

OriginalPenalize ==
    /\ CloneCallable
    /\ \E r \in {check_and_penalize_no_moves(Game)} : OnOriginal(r)

CloneMove(dest) ==
    /\ CloneCallable
    /\ dest \in Range(valid_moves_of(clone.state, clone.state.current_player))
    /\ \E r \in {make_move(clone.state, clone.state.current_player, dest)} :
          OnClone(r)

ClonePenalize ==
    /\ CloneCallable
    /\ \E r \in {check_and_penalize_no_moves(clone.state)} : OnClone(r)

\* find_best_move(c)
CloneSearch ==
    /\ clone.made
    /\ clone.calls = 0
    /\ ~search.called
    /\ \E r \in {find_best_move(clone.state, NoDepth)} :
          /\ Assign(SeenThrough(Game, r.game_state, clone.shares))
          /\ clone' = [clone EXCEPT !.state = r.game_state, !.on = "clone"]
          /\ search' = [called |-> TRUE, depth |-> NoDepth,
                        game_state |-> clone.state,
                        evaluation |-> r.evaluation, move |-> r.move,
                        nodes_evaluated |-> r.nodes_evaluated,
                        depth_reached |-> r.depth_reached,
                        visited |-> r.visited]
    /\ UNCHANGED <<last, probe, steps, request, ledger>>

NextClone ==
    \/ /\ ~clone.made
       /\ steps < MaxClonePlies
       /\ \E dest \in Range(valid_moves_of(Game, current_player)) : FreshMove(dest)
    \/ MakeClone
    \/ \E dest \in Range(valid_moves_of(Game, current_player)) : OriginalMove(dest)
    \/ OriginalPenalize
    \/ /\ clone.made
       /\ \E dest \in Range(valid_moves_of(clone.state,
                                            clone.state.current_player)) :
             CloneMove(dest)
    \/ ClonePenalize
    \/ CloneSearch

\* game = GameState('beginner')
InitClone == Init /\ difficulty = "beginner"

SpecClone == InitClone /\ [][NextClone]_vars

-----------------------------------------------------------------------------
(* The routes.  The server keeps no game: the client posts the state it     *)
(* holds and keeps the state of the response.  The state a client posts is  *)
(* the fresh game, a game after a few moves of the side to move, or the     *)
(* state of an earlier response.                                            *)

Requests == IF request = NoRequest THEN 0 ELSE request.number

\* the client's state after a response: the game_state of a 200 response,
\* read as the next request reads it, or else the state it had
Answer(endpoint, data, response) ==
    /\ request' = [endpoint |-> endpoint, number |-> Requests + 1,
                   data |-> data, response |-> response]
    /\ IF response.status = 200 /\ "game_state" \in DOMAIN response
       THEN Assign(from_dict(response.game_state))
       ELSE UNCHANGED gameVars
    /\ last' = [NoCall EXCEPT !.op = endpoint]
    /\ steps' = steps + 1
    /\ UNCHANGED <<probe, search, clone, ledger>>

\* one of the first MaxRequests requests
Serve(endpoint, data, response) ==
    /\ Requests < MaxRequests
    /\ Answer(endpoint, data, response)

\* the difficulties posted to /new
PostedDifficulties == {"beginner", "master"}

NewGame(d, shuffled) ==
    /\ steps = 0
    /\ \E response \in {new_game([difficulty |-> d], shuffled)} :
          Serve("/new", [difficulty |-> d], response)

\* /new without a body: request.get_json() or {}
NewGameDefault(shuffled) ==
    /\ steps = 0
    /\ \E data \in {[field \in {} |-> ""]} :
          \E response \in {new_game(data, shuffled)} :
             Serve("/new", data, response)

\* the destinations posted to /move: the knight moves of black inside the
\* arena, legal or not, and a square off the board
PostedMoves == {p \in Range(get_knight_moves(black_knight)) : InArena(p)}
                  \cup {<<BOARD_SIZE, BOARD_SIZE>>}

PlayerMove(move) ==
    \E data \in {[game_state |-> to_dict(Game), move |-> move]} :
       \E response \in {player_move(data)} : Serve("/move", data, response)

\* /move without the move field
PlayerMoveIncomplete ==
    \E data \in {[game_state |-> to_dict(Game)]} :
       \E response \in {player_move(data)} : Serve("/move", data, response)

ValidMoves(knight) ==
    \E data \in {[game_state |-> to_dict(Game), knight |-> knight]} :
       \E response \in {valid_moves_request(data)} :
          Serve("/valid-moves", data, response)

MachineMove ==
    \E data \in {[game_state |-> to_dict(Game)]} :
       \E response \in {get_machine_move(data)} :
          Serve("/machine-move", data, response)

\* a move made on the client's state before it is posted
ClientMove(dest) ==
    /\ request = NoRequest
    /\ steps < MaxServedPlies
    /\ Move(dest)

NextServed ==
    \/ \E dest \in Range(valid_moves_of(Game, current_player)) : ClientMove(dest)
    \/ \E d \in PostedDifficulties, shuffled \in Shuffles : NewGame(d, shuffled)
    \/ \E shuffled \in Shuffles : NewGameDefault(shuffled)
    \/ \E move \in PostedMoves : PlayerMove(move)
    \/ PlayerMoveIncomplete
    \/ \E knight \in {"white", "black", "grey"} : ValidMoves(knight)
    \/ MachineMove

InitServed == Init /\ difficulty = "beginner"

SpecServed == InitServed /\ [][NextServed]_vars

-----------------------------------------------------------------------------
(* A served game: the client asks /new for a game and from then on posts    *)
(* the state of the last response, unchanged, to /move and /valid-moves,    *)
(* until the game is over and for some requests after that.                 *)

\* the destinations the client posts to /move: in its first turns black's
\* first valid move or one that leaves black the fewest moves afterwards,
\* later on the latter; when black has no valid move, the squares a
\* knight's move away
SessionMoves ==
    LET valid_moves == valid_moves_of(Game, "black")
        onward(m) == Len(valid_moves_of(make_move(Game, "black", m).state, "black"))
        cramped == CHOOSE m \in Range(valid_moves) :
                      \A n \in Range(valid_moves) : onward(m) <= onward(n)
    IN  IF valid_moves = <<>> THEN Range(get_knight_moves(black_knight))
        ELSE IF Requests <= SessionFreeTurns
        THEN {valid_moves[1], cramped}
        ELSE {cramped}

\* POST /new, the first request
SessionNew(shuffled) ==
    /\ request = NoRequest
    /\ \E data \in {[difficulty |-> "beginner"]} :
          \E response \in {new_game(data, shuffled)} : Answer("/new", data, response)

\* POST /move with the state of the last response
SessionMove(move) ==
    /\ request # NoRequest
    /\ Requests < MaxSessionRequests
    /\ \E data \in {[game_state |-> to_dict(Game), move |-> move]} :
          \E response \in {player_move(data)} : Answer("/move", data, response)

\* POST /valid-moves with the state of the last response
SessionValidMoves(knight) ==
    /\ request # NoRequest
    /\ Requests < MaxSessionRequests
    /\ \E data \in {[game_state |-> to_dict(Game), knight |-> knight]} :
          \E response \in {valid_moves_request(data)} :
             Answer("/valid-moves", data, response)

NextSession ==
    \/ \E shuffled \in Shuffles : SessionNew(shuffled)
    \/ \E move \in SessionMoves : SessionMove(move)
    \/ \E knight \in {"white", "black"} : SessionValidMoves(knight)

SpecSession == InitServed /\ [][NextSession]_vars

-----------------------------------------------------------------------------
(* A whole game under the turn protocol, on the full board: while the game  *)
(* is not over the side to move makes a legal move if it has one, and takes *)
(* the penalty call otherwise.                                              *)

\* the moves the side to move chooses from
TurnChoices ==
    LET valid_moves == valid_moves_of(Game, current_player)
    IN  IF steps < FreeTurns \/ valid_moves = <<>>
        THEN Range(valid_moves)
        ELSE {valid_moves[1]}

TurnMove(dest) ==
    /\ ~game_over
    /\ steps < MaxTurns
    /\ dest \in TurnChoices
    /\ \E r \in {make_move(Game, current_player, dest)} :
          Assign(r.state) /\ last' = r.result
    /\ steps' = steps + 1
    /\ UNCHANGED <<probe, search, request, clone, ledger>>

TurnPenalty ==
    /\ ~game_over
    /\ steps < MaxTurns
    /\ valid_moves_of(Game, current_player) = <<>>
    /\ \E r \in {check_and_penalize_no_moves(Game)} :
          Assign(r.state) /\ last' = r.result
    /\ steps' = steps + 1
    /\ UNCHANGED <<probe, search, request, clone, ledger>>

NextProtocol ==
    \/ \E dest \in TurnChoices : TurnMove(dest)
    \/ TurnPenalty

\* a turn is taken: every step of NextProtocol is one, and one is possible
\* whenever the game is not over (the side to move either has a move or
\* takes the penalty)
Turn == ~game_over /\ steps < MaxTurns /\ steps' = steps + 1

\* the players keep taking their turns while the game is not over
SpecProtocol ==
    InitServed /\ [][NextProtocol]_vars /\ WF_steps(Turn)

-----------------------------------------------------------------------------
(* Properties.  Every step of the specifications is one call, described by  *)
(* last' (the method, its arguments and what it returned); the unprimed     *)
(* variables are the state the call was made in.                            *)

Stuck(s, knight) == valid_moves_of(s, knight) = <<>>

BothStuck == Stuck(Game, "white") /\ Stuck(Game, "black")

ScoreOf(knight) == IF knight = "white" THEN white_score ELSE black_score

KnightOf(knight) == IF knight = "white" THEN white_knight ELSE black_knight

ScoreAfter(knight) == IF knight = "white" THEN white_score' ELSE black_score'

KnightAfter(knight) == IF knight = "white" THEN white_knight' ELSE black_knight'

\* the int a cell carries, 0 for an empty cell or a missing key
CellPoints(b, p) ==
    LET v == BoardGet(b, p, Int_(0))
    IN  IF v.kind = "int" THEN v.value ELSE 0

MadeMove == last.op = "make_move" /\ last.valid

\* C1: game_over is true only if both sides have zero legal moves, after a
\* make_move or a penalty call a state where both sides have zero legal moves
\* is marked game_over, and a state where exactly one side is stuck is never
\* marked game_over.
C1_TerminalCorrectness ==
    /\ game_over => BothStuck
    /\ (last.op # "init" /\ BothStuck) => game_over
    /\ (Stuck(Game, "white") # Stuck(Game, "black")) => ~game_over

C1_Witness ==
    /\ MadeMove
    /\ game_over
    /\ BothStuck

\* C2: a penalty call made when the side to move is stuck and the other side
\* is not takes exactly 4 from the stuck side's score, leaves the other score,
\* the board and both knights alone, hands the turn over, leaves game_over
\* false and returns True; made when the side to move has a legal move it
\* returns False and changes nothing.
C2_NoMovePenalty ==
    [][last'.op = "check_and_penalize_no_moves" =>
         LET side == current_player
         IN  /\ (Stuck(Game, side) /\ ~Stuck(Game, Other(side))) =>
                   /\ last'.penalized
                   /\ ScoreAfter(side) = ScoreOf(side) - 4
                   /\ ScoreAfter(Other(side)) = ScoreOf(Other(side))
                   /\ board' = board
                   /\ white_knight' = white_knight
                   /\ black_knight' = black_knight
                   /\ current_player' = Other(side)
                   /\ game_over' = FALSE
             /\ ~Stuck(Game, side) =>
                   /\ ~last'.penalized
                   /\ UNCHANGED gameVars]_vars

C2_Witness ==
    /\ last.op = "check_and_penalize_no_moves"
    /\ last.penalized
    /\ ~game_over
    /\ Stuck(Game, last.knight)
    /\ ~Stuck(Game, Other(last.knight))

\* C3: in a state where both sides have zero legal moves no call changes
\* either side's score.
C3_NoPenaltyWhenBothStuck ==
    [][BothStuck => (white_score' = white_score /\ black_score' = black_score)]_vars

\* C4: make_move succeeds only for a destination in the mover's legal moves;
\* for any other destination it returns invalid and changes nothing.
C4_OnlyLegalMovesAccepted ==
    [][last'.op = "make_move" =>
         \/ last'.new_position \in Range(valid_moves_of(Game, last'.knight))
         \/ (~last'.valid /\ UNCHANGED gameVars)]_vars

\* C5: make_move onto a destroyed destination returns valid = False and
\* leaves the board, both knights, both scores, the turn, game_over and the
\* winner as they were.
C5_DestroyedDestinationRejected ==
    [][(last'.op = "make_move"
          /\ BoardGet(board, last'.new_position, Int_(0)) = destroyed) =>
         (~last'.valid /\ UNCHANGED gameVars)]_vars

C5_Witness ==
    /\ last.op = "make_move"
    /\ ~last.valid
    /\ BoardGet(board, last.new_position, Int_(0)) = destroyed

\* C6: a successful make_move adds to the mover's score exactly the int the
\* destination cell carried before the move (0 for an empty cell), reports
\* that amount as points_gained and leaves the opponent's score unchanged.
C6_ScoreUpdate ==
    [][(last'.op = "make_move" /\ last'.valid) =>
         LET side == last'.knight
             amount == CellPoints(board, last'.new_position)
         IN  /\ ScoreAfter(side) = ScoreOf(side) + amount
             /\ last'.points_gained = amount
             /\ ScoreAfter(Other(side)) = ScoreOf(Other(side))]_vars

C6_Witness ==
    /\ MadeMove
    /\ last.points_gained # 0
    /\ ScoreOf(last.knight) # 0

\* C7: a successful make_move destroys exactly one cell, the square the mover
\* vacated; the destination cell keeps its content, every other cell is
\* unchanged and the opponent's knight stays where it was.
C7_BoardEffect ==
    [][(last'.op = "make_move" /\ last'.valid) =>
         LET side == last'.knight
             vacated == KnightOf(side)
         IN  /\ DOMAIN board' = DOMAIN board
             /\ board[vacated] # destroyed
             /\ board'[vacated] = destroyed
             /\ \A p \in DOMAIN board : p # vacated => board'[p] = board[p]
             /\ last'.new_position # vacated
             /\ board'[last'.new_position] = board[last'.new_position]
             /\ KnightAfter(Other(side)) = KnightOf(Other(side))
             /\ last'.square_destroyed = vacated]_vars

C7_Witness ==
    /\ MadeMove
    /\ board[last.square_destroyed] = destroyed
    /\ board[last.new_position].kind = "int"
    /\ KnightOf(last.knight) = last.new_position

\* C8: a destroyed cell stays destroyed under every call, and no destroyed
\* square is among the legal moves of either side.
C8_MonotonicRemoval ==
    /\ [][\A p \in DOMAIN board :
            board[p] = destroyed => (p \in DOMAIN board' /\ board'[p] = destroyed)]_vars
    /\ [](\A knight \in {"white", "black"} :
            \A m \in Range(valid_moves_of(Game, knight)) :
               BoardGet(board, m, None) # destroyed)

C8_Witness ==
    /\ steps >= 2
    /\ \E knight \in {"white", "black"} :
          \E m \in Range(get_knight_moves(KnightOf(knight))) : board[m] = destroyed

\* the index in KNIGHT_MOVES of the offset that leads from position to m
OffsetIndex(position, m) ==
    CHOOSE k \in 1..Len(KNIGHT_MOVES) :
        m = <<position[1] + KNIGHT_MOVES[k][1], position[2] + KNIGHT_MOVES[k][2]>>

Corners == {<<0, 0>>, <<0, 7>>, <<7, 0>>, <<7, 7>>}

\* C9: get_valid_moves returns exactly the knight-offset destinations that are
\* on the board, not destroyed and not the opponent's square, in KNIGHT_MOVES
\* order without duplicates; before filtering a corner has 2 candidates and
\* (4,4) has 8.
C9_LegalMoveGeneration ==
    probe # NoProbe =>
      LET position == probe.position
          moves == probe.moves
          offsets == {<<position[1] + KNIGHT_MOVES[k][1],
                        position[2] + KNIGHT_MOVES[k][2]>> : k \in 1..Len(KNIGHT_MOVES)}
      IN  /\ Range(moves) = {m \in offsets :
                                /\ m[1] \in 0..7 /\ m[2] \in 0..7
                                /\ board[m] # destroyed
                                /\ m # probe.opponent_position}
          /\ \A i, j \in 1..Len(moves) :
                i < j => OffsetIndex(position, moves[i]) < OffsetIndex(position, moves[j])
          /\ position \in Corners => Len(probe.candidates) = 2
          /\ position = <<4, 4>> => Len(probe.candidates) = 8

C9_Witness ==
    /\ probe # NoProbe
    /\ Len(probe.moves) >= 2
    /\ Len(probe.moves) < Len(probe.candidates)
    /\ probe.opponent_position \in Range(probe.candidates)
    /\ \E m \in Range(probe.candidates) : board[m] = destroyed

ValuedSquares == {p \in DOMAIN board : board[p].kind = "int" /\ board[p].value # 0}

\* C10: a fresh game has exactly 10 valued cells carrying -10,-5,-4,-3,-1,1,3,
\* 4,5,10 once each, every other cell empty and none destroyed, and the two
\* knights on distinct, empty squares.
C10_FreshLayout ==
    last.op = "init" =>
      /\ Cardinality(ValuedSquares) = 10
      /\ \A v \in {-10, -5, -4, -3, -1, 1, 3, 4, 5, 10} :
            Cardinality({p \in ValuedSquares : board[p].value = v}) = 1
      /\ \A p \in DOMAIN board : p \notin ValuedSquares => board[p] = None
      /\ DOMAIN board = Positions
      /\ white_knight # black_knight
      /\ board[white_knight] = None
      /\ board[black_knight] = None

C10_Witness ==
    /\ last.op = "init"
    /\ steps = 0
    /\ \E p \in Positions : board[p] = Int_(10)
    /\ white_knight \in Positions
    /\ black_knight \in Positions

\* C11: in every state reached by legal moves and penalties the two knights
\* are on distinct squares of the 8x8 board and neither stands on a destroyed
\* cell.
C11_KnightPositions ==
    /\ white_knight # black_knight
    /\ white_knight \in Positions
    /\ black_knight \in Positions
    /\ board[white_knight] # destroyed
    /\ board[black_knight] # destroyed

C11_Witness ==
    /\ MadeMove
    /\ steps >= 4
    /\ black_knight \in Range(get_knight_moves(white_knight))
    /\ \E m \in Range(get_knight_moves(white_knight)) : board[m] = destroyed

\* C20: winner is None while game_over is false; when game_over is true the
\* winner is white if white_score > black_score, black if black_score >
\* white_score and tie if they are equal, for the scores of that same state.
C20_WinnerByScore ==
    /\ ~game_over => winner = "None"
    /\ game_over => winner = (IF white_score > black_score THEN "white"
                              ELSE IF black_score > white_score THEN "black"
                              ELSE "tie")

C20_Witness ==
    /\ game_over
    /\ MadeMove
    /\ winner \in {"white", "black"}
    /\ white_score # black_score

\* depth-limited minimax without pruning: the value of state s for the side
\* is_maximizing selects, with the search's leaf conditions and evaluator
RECURSIVE PlainMinimax(_, _, _)
PlainMinimax(s, depth, is_maximizing) ==
    LET player == IF is_maximizing THEN "white" ELSE "black"
        moves == valid_moves_of(s, player)
        values == {PlainMinimax(make_move(s, player, moves[i]).state, depth - 1,
                                ~is_maximizing) : i \in 1..Len(moves)}
    IN  IF depth = 0 \/ s.game_over \/ moves = <<>>
        THEN evaluate_game_state(s)
        ELSE IF is_maximizing
        THEN CHOOSE v \in values : \A w \in values : w <= v
        ELSE CHOOSE v \in values : \A w \in values : v <= w

\* the number of nodes of that tree
RECURSIVE PlainNodes(_, _, _)
PlainNodes(s, depth, is_maximizing) ==
    LET player == IF is_maximizing THEN "white" ELSE "black"
        moves == valid_moves_of(s, player)
        RECURSIVE Below(_)
        Below(i) ==
            IF i > Len(moves) THEN 0
            ELSE PlainNodes(make_move(s, player, moves[i]).state, depth - 1,
                            ~is_maximizing) + Below(i + 1)
    IN  IF depth = 0 \/ s.game_over \/ moves = <<>> THEN 1 ELSE 1 + Below(1)

\* the side the last search ran for, its moves in get_valid_moves order and
\* the plain minimax value of each
SearchMaximizing == search.game_state.current_player = "white"

SearchMoves == valid_moves_of(search.game_state, search.game_state.current_player)

SearchChildValue(move) ==
    PlainMinimax(make_move(search.game_state, search.game_state.current_player,
                           move).state,
                 search.depth - 1, ~SearchMaximizing)

SearchValue == PlainMinimax(search.game_state, search.depth, SearchMaximizing)

\* the search went below the root
SearchExpanded ==
    /\ search.called
    /\ search.depth >= 1
    /\ ~search.game_state.game_over
    /\ SearchMoves # <<>>

\* C13: minimax_alpha_beta called with alpha = -inf and beta = +inf returns
\* the value of plain minimax of the same depth, and the move it returns
\* attains that value.
C13_PruningCorrectness ==
    search.called =>
        /\ search.evaluation = SearchValue
        /\ search.move # NoPosition =>
              SearchChildValue(search.move) = SearchValue

\* a search that returned a move and cut subtrees off: it visited fewer nodes
\* than the tree has
C13_Witness ==
    /\ SearchExpanded
    /\ search.move # NoPosition
    /\ search.nodes_evaluated
          < PlainNodes(search.game_state, search.depth, SearchMaximizing)

\* the moves of the searched side whose subtree has the best value
SearchBestMoves == {i \in 1..Len(SearchMoves) :
                      SearchChildValue(SearchMoves[i]) = SearchValue}

\* C14: the move find_best_move returns is the first one, in get_valid_moves
\* order, whose depth-limited minimax value is the best value for the side to
\* move; a later move of equal value never replaces it.
C14_FirstBestMove ==
    SearchExpanded =>
        /\ SearchBestMoves # {}
        /\ search.move =
              SearchMoves[CHOOSE i \in SearchBestMoves :
                             \A j \in SearchBestMoves : i <= j]

\* white's search with two moves of the best value, and subtrees cut off
C14_Witness ==
    /\ SearchExpanded
    /\ SearchMaximizing
    /\ Cardinality(SearchBestMoves) >= 2
    /\ search.move \in Range(SearchMoves)
    /\ search.nodes_evaluated
          < PlainNodes(search.game_state, search.depth, SearchMaximizing)

\* C15: on a non-terminal state searched to depth >= 1, find_best_move
\* returns a member of get_valid_moves(side to move) when that side has a
\* legal move, and returns None only when it has none.
C15_MoveExactlyWhenOneExists ==
    (search.called /\ search.depth >= 1 /\ ~search.game_state.game_over) =>
        /\ SearchMoves # <<>> => search.move \in Range(SearchMoves)
        /\ search.move = NoPosition => SearchMoves = <<>>

\* black's search on a state where black has several legal moves
C15_Witness ==
    /\ SearchExpanded
    /\ ~SearchMaximizing
    /\ Len(SearchMoves) >= 2
    /\ search.move \in Range(SearchMoves)

\* C16: when the side to move has no legal move, find_best_move returns
\* move None, the evaluation of the unchanged state and nodes_evaluated = 1.
C16_RootWithoutMoves ==
    (search.called /\ SearchMoves = <<>>) =>
        /\ search.move = NoPosition
        /\ search.evaluation = evaluate_game_state(search.game_state)
        /\ search.nodes_evaluated = 1
        /\ Game = search.game_state

\* a search of depth >= 1 for a stuck side in a game that is not over
C16_Witness ==
    /\ search.called
    /\ search.depth >= 1
    /\ ~search.game_state.game_over
    /\ SearchMoves = <<>>
    /\ search.nodes_evaluated = 1

\* C17: a call of find_best_move leaves the state it is given as it was:
\* board, knights, scores, current_player, game_over and winner (and the
\* difficulty and max_depth) are the same after the call as before.
C17_SearchDoesNotMutate ==
    [][(search'.called /\ ~search.called) =>
          /\ UNCHANGED gameVars
          /\ search'.game_state = Game]_vars

\* a search that went two plies deep into a game with destroyed squares
C17_Witness ==
    /\ SearchExpanded
    /\ search.depth >= 2
    /\ search.nodes_evaluated > 1 + Len(SearchMoves)
    /\ \E p \in DOMAIN board : board[p] = destroyed
    /\ Game = search.game_state

\* the step serves a request of this endpoint
Served(endpoint) == request' # request /\ request'.endpoint = endpoint

\* C12: /move applies the posted move only when current_player is black and
\* the destination is in get_valid_moves("black"); otherwise it answers 400
\* "Not player's turn" or "This is not a valid move" and the posted state
\* gets no move, no score change and no machine reply.
C12_MoveOnlyWhenLegal ==
    [][(Served("/move") /\ "move" \in DOMAIN request'.data) =>
          IF /\ current_player = "black"
             /\ request'.data.move \in Range(valid_moves_of(Game, "black"))
          THEN /\ request'.response.status = 200
               /\ black_knight' = request'.data.move
               /\ board'[black_knight] = destroyed
               /\ black_score' = black_score
                                   + CellPoints(board, request'.data.move)
          ELSE /\ request'.response.status = 400
               /\ request'.response.error = "Invalid Move"
               /\ request'.response.message =
                     (IF current_player # "black" THEN "Not player's turn"
                      ELSE "This is not a valid move")
               /\ request'.response.searched = <<>>
               /\ UNCHANGED gameVars]_vars

\* black posted a square of the board that is not one of its legal moves,
\* and was refused
C12_Witness ==
    /\ request.endpoint = "/move"
    /\ "move" \in DOMAIN request.data
    /\ InBounds(request.data.move)
    /\ request.response.status = 400
    /\ request.response.message = "This is not a valid move"
    /\ current_player = "black"

\* C18: while /new, /move or /valid-moves is served, find_best_move is only
\* called on a state whose side to move has at least one legal move (a side
\* without moves gets the penalty instead of, and before, a search).
C18_SearchOnlyWithMoves ==
    request.endpoint \in {"/new", "/move", "/valid-moves"} =>
        \A i \in 1..Len(request.response.searched) :
            LET s == request.response.searched[i]
            IN  valid_moves_of(s, s.current_player) # <<>>

\* C19: under the turn protocol every play from a fresh game reaches
\* game_over, and a state in which both sides have no legal move is a state
\* of a finished game.
C19_GameTerminates ==
    /\ <>game_over
    /\ [](BothStuck => game_over)

\* a finished game in which a side took the penalty and played on
C19_Witness ==
    /\ game_over
    /\ BothStuck
    /\ steps < MaxTurns
    /\ MadeMove
    /\ white_score + black_score < 0

\* the evaluation of a game that is not over, computed with given move
\* counts for the two sides
EvaluationWithCounts(s, white_moves, black_moves) ==
    LET valuable_squares == get_valuable_squares(s.board)
    IN  ((s.white_score - s.black_score) * 100
         + (white_moves - black_moves) * 10
         + (IF is_center_position(s.white_knight) THEN 3 ELSE 0)
         - (IF is_center_position(s.black_knight) THEN 3 ELSE 0)
         + (IF white_moves = 0 THEN -400 ELSE 0)
         + (IF black_moves = 0 THEN 400 ELSE 0)) * EvalUnit
        + Proximity(s.white_knight, s.board, valuable_squares)
        - Proximity(s.black_knight, s.board, valuable_squares)

\* C21: on a state that is not game over, the mobility term of
\* evaluate_game_state is 10 * (len(get_valid_moves(white)) -
\* len(get_valid_moves(black))) and the -400 / +400 term is applied exactly
\* when get_valid_moves(white) / get_valid_moves(black) is empty, the legal
\* moves excluding the opponent's square.
C21_MobilityByLegalMoves ==
    ~game_over =>
        evaluate_game_state(Game)
           = EvaluationWithCounts(Game, Len(valid_moves_of(Game, "white")),
                                  Len(valid_moves_of(Game, "black")))

\* C22: for a state with game_over true, evaluate_game_state returns exactly
\* +10000 if the winner is white, -10000 if it is black and 0 for a tie,
\* whatever the scores, mobility, proximity and centre occupation are.
C22_TerminalShortcut ==
    game_over =>
        evaluate_game_state(Game)
           = (CASE winner = "white" -> 10000 * EvalUnit
                [] winner = "black" -> -10000 * EvalUnit
                [] winner = "tie" -> 0)

\* a tied finished game whose other factors do not cancel out
C22_Witness ==
    /\ game_over
    /\ winner = "tie"
    /\ MadeMove
    /\ evaluate_game_state(Game) = 0
    /\ EvaluationWithCounts(Game, 0, 0) # 0

\* the last step searched the fresh game to this depth
FreshSearched(depth) ==
    /\ search.called
    /\ steps = 0
    /\ search.depth_reached = depth

\* C23: on every fresh beginner game, find_best_move at depth 2 reports
\* nodes_evaluated >= 10 and nodes_evaluated < 200.
C23_NodeCountAtDepthTwo ==
    (FreshSearched(2) /\ difficulty = "beginner") =>
        /\ search.nodes_evaluated >= 10
        /\ search.nodes_evaluated < 200

\* C24: find_best_move at depth 4 on a fresh game reports strictly more
\* nodes_evaluated than find_best_move at depth 2 on a fresh game, the same
\* one or another.
C24_DeeperSearchMoreNodes ==
    FreshSearched(4) =>
        \A shuffled \in FreshShuffles :
            search.nodes_evaluated
               > find_best_move(GameState("beginner", shuffled), NoDepth).nodes_evaluated

\* the greatest number of plies below node s at which the search visits a
\* node, when it searches s with this depth and window
RECURSIVE DeepestVisited(_, _, _, _, _)
RECURSIVE DeepestInLoop(_, _, _, _, _, _, _)
DeepestVisited(s, depth, alpha, beta, is_maximizing) ==
    LET moves == valid_moves_of(s, IF is_maximizing THEN "white" ELSE "black")
    IN  IF depth = 0 \/ s.game_over \/ moves = <<>> THEN 0
        ELSE 1 + DeepestInLoop(s, moves, 1, depth, alpha, beta, is_maximizing)

\* the same below the children the loop visits from the i-th move on
DeepestInLoop(s, moves, i, depth, alpha, beta, is_maximizing) ==
    IF i > Len(moves) THEN 0
    ELSE LET player == IF is_maximizing THEN "white" ELSE "black"
             child == make_move(s, player, moves[i]).state
             value == minimax_alpha_beta(child, depth - 1, alpha, beta,
                                         ~is_maximizing, 0, {}, NoCaller).evaluation
             below == DeepestVisited(child, depth - 1, alpha, beta, ~is_maximizing)
             new_alpha == IF is_maximizing THEN Max(alpha, value) ELSE alpha
             new_beta == IF is_maximizing THEN beta ELSE Min(beta, value)
         IN  IF Cutoff(new_alpha, new_beta) THEN below
             ELSE Max(below, DeepestInLoop(s, moves, i + 1, depth, new_alpha,
                                           new_beta, is_maximizing))

\* C25: depth_reached of the result of find_best_move is the depth the search
\* actually reached, the greatest number of plies below the root at which a
\* node was visited, also when the tree ends before the configured depth.
C25_DepthActuallyReached ==
    search.called =>
        search.depth_reached
           = DeepestVisited(search.game_state, search.depth_reached, -Infinity,
                            Infinity, SearchMaximizing)

\* C26: a game created with tier beginner, amateur or expert has max_depth
\* 2, 4 or 6; no move, penalty, copy or to_dict / from_dict passage changes
\* max_depth; and find_best_move called without a depth searches to exactly
\* the state's max_depth.
C26_DepthConfiguration ==
    /\ [](max_depth = (CASE difficulty = "beginner" -> 2
                         [] difficulty = "amateur" -> 4
                         [] difficulty = "expert" -> 6))
    /\ [][max_depth' = max_depth]_vars
    /\ []((search.called /\ search.depth = NoDepth) =>
            LET explicit == find_best_move(search.game_state,
                                           search.game_state.max_depth)
            IN  /\ search.depth_reached = search.game_state.max_depth
                /\ search.nodes_evaluated = explicit.nodes_evaluated
                /\ search.evaluation = explicit.evaluation
                /\ search.move = explicit.move)

\* an expert game searched without a depth: the search went deeper than a
\* search of depth 4 does
C26_Witness ==
    /\ search.called
    /\ search.depth = NoDepth
    /\ difficulty = "expert"
    /\ search.depth_reached = 6
    /\ search.nodes_evaluated > find_best_move(search.game_state, 4).nodes_evaluated

\* C27: a /new request whose difficulty is not beginner, amateur or expert is
\* answered with an error and creates no game, and no game of an
\* unrecognized tier, with a depth substituted for it, ever comes out of a
\* request.
C27_UnrecognizedTierRejected ==
    /\ [][(Served("/new") /\ "difficulty" \in DOMAIN request'.data
             /\ request'.data.difficulty \notin {"beginner", "amateur", "expert"}) =>
            /\ request'.response.status = 400
            /\ request'.response.error = "Invalid difficulty"
            /\ "game_state" \notin DOMAIN request'.response
            /\ request'.response.searched = <<>>
            /\ UNCHANGED gameVars]_vars
    /\ [](/\ difficulty \in {"beginner", "amateur", "expert"}
          /\ (request # NoRequest /\ "game_state" \in DOMAIN request.response) =>
                request.response.game_state.difficulty
                   \in {"beginner", "amateur", "expert"})

\* /new was asked for the tier 'master' and refused
C27_Witness ==
    /\ request.endpoint = "/new"
    /\ "difficulty" \in DOMAIN request.data
    /\ request.data.difficulty = "master"
    /\ request.response.status = 400
    /\ difficulty = "beginner"

\* C28: for every reachable state s, GameState.from_dict(s.to_dict()) has the
\* same board (every cell), knight positions, scores, current_player,
\* difficulty, max_depth, game_over and winner as s.
C28_SerializationRoundTrip ==
    LET restored == from_dict(to_dict(Game))
    IN  /\ DOMAIN restored.board = DOMAIN board
        /\ \A pos \in DOMAIN board : restored.board[pos] = board[pos]
        /\ restored.white_knight = white_knight
        /\ restored.black_knight = black_knight
        /\ restored.white_score = white_score
        /\ restored.black_score = black_score
        /\ restored.current_player = current_player
        /\ restored.difficulty = difficulty
        /\ restored.max_depth = max_depth
        /\ restored.game_over = game_over
        /\ restored.winner = winner

\* a game with destroyed squares and points scored that went through
\* to_dict / from_dict
C28_Witness ==
    /\ last.op = "from_dict"
    /\ steps >= 2
    /\ \E pos \in DOMAIN board : board[pos] = destroyed
    /\ white_score # 0
    /\ current_player = "white"

C30_TurnOrder ==
    /\ [](last.op = "init" => current_player = "white")
    /\ [][(last'.op = "make_move" /\ last'.valid /\ last'.knight = current_player) =>
            current_player' = Other(current_player)]_vars
    /\ [][(last'.op = "make_move" /\ last'.valid) =>
            /\ last.op = "init" => last'.knight = "white"
            /\ MadeMove => last'.knight = Other(last.knight)]_vars

\* black has just made the fourth move of a game without penalty calls
C30_Witness ==
    /\ MadeMove
    /\ steps = 4
    /\ last.knight = "black"
    /\ current_player = "white"
    /\ Cardinality(DestroyedSquares) = 4

\* the number of nodes of the full tree of this depth with eight moves at
\* every node
RECURSIVE FullTree(_)
FullTree(depth) == IF depth = 0 THEN 1 ELSE 1 + Len(KNIGHT_MOVES) * FullTree(depth - 1)

\* C31: for every state and every depth d >= 0 the search terminates: every
\* call lies at most d calls below the root and has depth d minus its level
\* (never below 0), so at most FullTree(d) calls are made; and no call is
\* made from a call with depth 0, a game that is over or a side to move
\* without a legal move, so such a root is the only call of its search.
C31_SearchTermination ==
    search.called =>
        /\ \A v \in search.visited :
              /\ v.level \in 0..search.depth
              /\ v.depth = search.depth - v.level
              /\ ~v.under_leaf
        /\ search.nodes_evaluated \in 1..FullTree(search.depth)
        /\ (\/ search.depth = 0
            \/ search.game_state.game_over
            \/ SearchMoves = <<>>) =>
               /\ search.nodes_evaluated = 1
               /\ search.move = NoPosition
               /\ \A v \in search.visited : v.level = 0

\* a search of the greatest depth that reaches its horizon on one line of
\* play and ends above it on another, at a node whose side has no move
C31_Witness ==
    /\ search.called
    /\ search.depth = MaxSearchDepth
    /\ \E v \in search.visited : v.level = search.depth
    /\ \E v \in search.visited : v.leaf /\ v.depth > 0
    /\ search.nodes_evaluated > search.depth + 1

\* an evaluation within the range the search documents, in units of
\* 1/EvalUnit
InRange(evaluation) ==
    -10000 * EvalUnit <= evaluation /\ evaluation <= 10000 * EvalUnit

\* C32: for every state reachable by legal moves and penalties the evaluation
\* the search returns lies in [-10000, +10000]: no state of a game that is
\* not over is evaluated above the +10000 of a white win or below the -10000
\* of a black win.  The search is the one of depth 0 and, at a root whose
\* side to move has no legal move, also the one of the game's own depth.
C32_EvaluationRange ==
    /\ InRange(find_best_move(Game, 0).evaluation)
    /\ Stuck(Game, current_player) => InRange(find_best_move(Game, NoDepth).evaluation)

\* C33: in a search started by find_best_move, at every visited node
\* is_maximizing is true exactly when current_player of the node's state is
\* white: the side whose moves the node generates is the side to move there.
C33_SearchSideConsistency ==
    search.called =>
        \A v \in search.visited :
            v.is_maximizing <=> (v.current_player = "white")

\* a search from black's turn that visits nodes of both sides down to the
\* greatest depth
C33_Witness ==
    /\ search.called
    /\ search.game_state.current_player = "black"
    /\ search.depth = MaxSearchDepth
    /\ \E v \in search.visited : v.level = 1 /\ v.is_maximizing
    /\ \E v \in search.visited : v.level = search.depth /\ ~v.is_maximizing

-----------------------------------------------------------------------------
(* A game played inside the arena with an account kept beside it: which      *)
(* squares a knight has arrived on, what the board showed there on arrival   *)
(* and how many of the penalty calls applied the penalty.                    *)

\* the account after a knight arrives on dest of board b
Arrived(account, b, dest) ==
    [account EXCEPT
       !.arrived = @ \cup {dest},
       !.valued = IF CellPoints(b, dest) # 0 THEN @ \cup {dest} ELSE @,
       !.again = IF dest \in account.arrived THEN @ \cup {dest} ELSE @,
       !.points = @ + CellPoints(b, dest)]

\* game.make_move(current_player, dest) with dest from get_valid_moves
LedgerMove(dest) ==
    /\ steps < MaxSteps
    /\ dest \in Range(valid_moves_of(Game, current_player))
    /\ InArena(dest)
    /\ \E r \in {make_move(Game, current_player, dest)} :
          /\ Assign(r.state)
          /\ last' = r.result
          /\ ledger' = IF r.result.valid THEN Arrived(ledger, board, dest) ELSE ledger
    /\ steps' = steps + 1
    /\ UNCHANGED <<probe, search, request, clone>>

\* game.check_and_penalize_no_moves()
LedgerPenalize ==
    /\ steps < MaxSteps
    /\ \E r \in {check_and_penalize_no_moves(Game)} :
          /\ Assign(r.state)
          /\ last' = r.result
          /\ ledger' = [ledger EXCEPT
                          !.penalties = IF r.result.penalized THEN @ + 1 ELSE @]
    /\ steps' = steps + 1
    /\ UNCHANGED <<probe, search, request, clone>>

NextLedger ==
    \/ \E dest \in Range(valid_moves_of(Game, current_player)) : LedgerMove(dest)
    \/ LedgerPenalize

SpecLedger == InitServed /\ [][NextLedger]_vars

\* C34: in every state reachable from a fresh game by legal moves and
\* penalties no valued square has been arrived on twice, no cell gains or
\* changes a point value, and white_score + black_score is the sum of the
\* values of the squares arrived on minus 4 for every penalty applied.
C34_ScoreConservation ==
    /\ [](/\ ledger.again \cap ledger.valued = {}
          /\ white_score + black_score = ledger.points - 4 * ledger.penalties)
    /\ [][\A p \in DOMAIN board' :
             CellPoints(board', p) # 0 => board'[p] = board[p]]_vars

\* a game in which both sides have collected points of both signs and a
\* penalty has been applied
C34_Witness ==
    /\ ledger.penalties > 0
    /\ Cardinality(ledger.valued) >= 4
    /\ white_score # 0
    /\ black_score # 0
    /\ ledger.points > 0
    /\ white_score + black_score < 0

-----------------------------------------------------------------------------
(* The served game, request by request.                                     *)

\* the last request was answered with a game state
ReturnsState ==
    /\ request # NoRequest
    /\ request.response.status = 200
    /\ "game_state" \in DOMAIN request.response

\* C35: between requests it is always the human's turn: every state that a
\* successful /new, /move or /valid-moves returns, in a game that starts with
\* /new and posts each returned state back unchanged, has game_over true or
\* current_player = "black", and so has the state the client holds.
C35_HumansTurnBetweenRequests ==
    /\ ReturnsState =>
          LET returned == from_dict(request.response.game_state)
          IN  returned.game_over \/ returned.current_player = "black"
    /\ request # NoRequest => game_over \/ current_player = "black"

\* /valid-moves has penalized black and answered with the machine's move:
\* the returned game goes on and it is black's turn again
C35_Witness ==
    /\ ReturnsState
    /\ request.endpoint = "/valid-moves"
    /\ request.number >= 3
    /\ request.response.penalty_applied
    /\ request.response.machine_move # NoPosition
    /\ ~game_over
    /\ current_player = "black"

-----------------------------------------------------------------------------
(* The opening: a game as GameState() constructs it, with the knights on    *)
(* any two squares of the board, taken through the calls /new makes on it   *)
(* (the penalty check, white's first move, the penalty check again), and    *)
(* /new itself on the deals that leave a knight the least room.             *)

\* an outcome of random.shuffle(all_positions) with w and b in front
Deal(w, b) ==
    LET rest(p) == p \notin {w, b}
    IN  <<w, b>> \o SelectSeq(all_positions, rest)

InitOpening ==
    /\ \E w \in Positions : \E b \in Positions \ {w} :
          LET s == GameState("beginner", Deal(w, b))
          IN  /\ board = s.board
              /\ white_knight = s.white_knight
              /\ black_knight = s.black_knight
              /\ white_score = s.white_score
              /\ black_score = s.black_score
              /\ current_player = s.current_player
              /\ difficulty = s.difficulty
              /\ max_depth = s.max_depth
              /\ game_over = s.game_over
              /\ winner = s.winner
    /\ last = NoCall
    /\ probe = NoProbe
    /\ steps = 0
    /\ search = NoSearch
    /\ request = NoRequest
    /\ clone = NoClone
    /\ ledger = NoLedger

\* game_state.check_and_penalize_no_moves(), on the game as constructed and
\* after white's first move
OpeningCheck ==
    /\ request = NoRequest
    /\ steps \in {0, 2}
    /\ \E r \in {check_and_penalize_no_moves(Game)} :
          Assign(r.state) /\ last' = r.result
    /\ steps' = steps + 1
    /\ UNCHANGED <<probe, search, request, clone, ledger>>

\* game_state.make_move("white", dest): white's first move, whichever of its
\* valid moves the search picks
OpeningMove(dest) ==
    /\ request = NoRequest
    /\ steps = 1
    /\ ~last.penalized
    /\ dest \in Range(valid_moves_of(Game, "white"))
    /\ \E r \in {make_move(Game, "white", dest)} :
          Assign(r.state) /\ last' = r.result
    /\ steps' = steps + 1
    /\ UNCHANGED <<probe, search, request, clone, ledger>>

\* a knight in a corner with the other knight a knight's move away from it
\* or from one of its two exits
Tight(game_state) ==
    \E knight \in {"white", "black"} :
       LET corner == IF knight = "white" THEN game_state.white_knight
                     ELSE game_state.black_knight
           other == IF knight = "white" THEN game_state.black_knight
                    ELSE game_state.white_knight
       IN  /\ corner \in Corners
           /\ \/ other \in Range(get_knight_moves(corner))
              \/ \E exit \in Range(get_knight_moves(corner)) :
                    other \in Range(get_knight_moves(exit))

\* POST /new, when the game it constructs is this one
OpeningNew ==
    /\ steps = 0
    /\ Tight(Game)
    /\ \E data \in {[difficulty |-> difficulty]} :
          \E response \in {new_game(data, Deal(white_knight, black_knight))} :
             Answer("/new", data, response)

NextOpening ==
    \/ OpeningCheck
    \/ \E dest \in Positions : OpeningMove(dest)
    \/ OpeningNew

SpecOpening == InitOpening /\ [][NextOpening]_vars

\* C36: a fresh game never starts with a penalty: white has a legal move in
\* every freshly constructed game and black has one after white's first
\* move, so neither penalty check of /new applies a penalty and /new answers
\* with the machine's first move and black to move.
C36_NoOpeningPenalty ==
    /\ last.op = "init" => ~Stuck(Game, "white")
    /\ last.op = "make_move" => ~Stuck(Game, "black")
    /\ ~last.penalized
    /\ request # NoRequest =>
          /\ request.response.status = 200
          /\ request.response.machine_move # NoPosition
          /\ ~request.response.penalty_applied
          /\ current_player = "black"
          /\ ~game_over

\* /new has answered for a game that starts with black in a corner and white
\* on one of the corner's two exits
C36_Witness ==
    /\ request # NoRequest
    /\ request.endpoint = "/new"
    /\ black_knight \in Corners
    /\ \E exit \in Range(get_knight_moves(black_knight)) : board[exit] = destroyed
    /\ Cardinality({exit \in Range(get_knight_moves(black_knight)) :
                       exit \in Range(valid_moves_of(Game, "black"))}) = 1

\* C37: the final result is stable: once game_over is true in a served game
\* it stays true, and every later /move or /valid-moves request on that state
\* leaves the board, the knights' positions, both scores and the winner
\* unchanged: /move is refused and /valid-moves returns no state and applies
\* no penalty.
C37_FinalResultStable ==
    [][game_over =>
          /\ game_over'
          /\ UNCHANGED <<board, white_knight, black_knight, white_score,
                         black_score, winner>>
          /\ "game_state" \notin DOMAIN request'.response
          /\ "penalty_applied" \notin DOMAIN request'.response
          /\ request'.endpoint = "/move" => request'.response.status = 400]_vars

\* /valid-moves has been asked, in a finished game, for the knight whose turn
\* it is, which has no move
C37_Witness ==
    /\ game_over
    /\ request # NoRequest
    /\ request.endpoint = "/valid-moves"
    /\ request.data.knight = current_player
    /\ request.data.game_state = to_dict(Game)
    /\ request.response.status = 200
    /\ request.response.count = 0

\* the last request ended with a penalty: /new or /move penalized the side
\* that could not move, or /valid-moves penalized and the machine did not move
PenaltyLast ==
    /\ ReturnsState
    /\ request.response.penalty_applied
    /\ request.endpoint = "/valid-moves" => request.response.machine_move = NoPosition

\* the last request began with a penalty: /valid-moves penalized the knight
\* it was asked about
PenaltyFirst ==
    /\ ReturnsState
    /\ request.endpoint = "/valid-moves"
    /\ request.response.penalty_applied

\* C38: a penalty is always followed by the opponent's move: right after a
\* penalty the game is not over and the opponent of the penalized side has a
\* legal move (when /valid-moves penalizes black, the machine moves in the
\* same request; when /move penalizes white, the returned game has black to
\* move with a move to make), and a game whose side to move has a legal move,
\* as after every penalty, next changes by a /move request with a valid move
\* of that side, never by another penalty.
C38_PenaltyThenOpponentMoves ==
    /\ [](PenaltyLast =>
             /\ ~game_over
             /\ current_player = "black"
             /\ ~Stuck(Game, "black"))
    /\ [](PenaltyFirst =>
             /\ request.data.game_state.current_player = "black"
             /\ request.response.machine_move # NoPosition
             /\ Len(request.response.searched) = 1
             /\ LET penalized == request.response.searched[1]
                IN  /\ ~penalized.game_over
                    /\ penalized.current_player = "white"
                    /\ penalized.black_score = request.data.game_state.black_score - 4
                    /\ request.response.machine_move
                          \in Range(valid_moves_of(penalized, "white")))
    /\ [][(/\ request # NoRequest
           /\ ~game_over
           /\ ~Stuck(Game, current_player)
           /\ gameVars' # gameVars) =>
              /\ current_player = "black"
              /\ request'.endpoint = "/move"
              /\ request'.data.move \in Range(valid_moves_of(Game, "black"))]_vars

\* /move has taken black's move and penalized the machine, which is stuck
\* while black can go on
C38_Witness ==
    /\ PenaltyLast
    /\ request.endpoint = "/move"
    /\ request.number >= 3
    /\ white_score = request.response.searched[1].white_score - 4
    /\ Stuck(Game, "white")
    /\ ~Stuck(Game, "black")
====
